---- MODULE Spec2Model ----
(***************************************************************************)
(* Student-management record API (backend/server.js): the validation       *)
(* function, the five request handlers over one MongoDB collection with a  *)
(* unique index on email, and concurrent requests interleaving at every    *)
(* await.                                                                   *)
(*                                                                         *)
(* JavaScript strings are sequences of one-character strings.  A JSON      *)
(* value of a request body is a record [t, s, n]: t is the typeof          *)
(* ("undefined", "string", "number"), s the characters of a string, n the  *)
(* value of a number.                                                      *)
(***************************************************************************)
EXTENDS Integers, Sequences, FiniteSets, TLC

VARIABLES
    collection,   \* the documents of db.collection('students')
    nextOid,      \* how many ObjectIds the driver has generated so far
    now,          \* the value the last new Date() returned
    pc,           \* per request slot: the await the handler is suspended at
    req,          \* per request slot: method, :id parameter and body
    doc,          \* per request slot: the handler's local student / updateData
    sent,         \* the request answered by the step just taken and its response
    hist,         \* history: the records created and not touched since, the ids deleted
    vdata,        \* validation harness: the payload under test
    vout,         \* validation harness: what the code returned for it
    vpc,          \* validation harness: which code was applied
    prev,         \* one request at a time: the response to the request before the last
                  \* one, when the two requests were the same
    form,         \* client: the values of the fields of #studentForm
    currentStudents, \* client: the records of the last list loaded
    deleteId,     \* client: the id the delete modal was opened for
    shownErrors,  \* client: the fields an error message is shown for
    calls,        \* client: the async functions suspended at an await
    loads         \* history: the list requests issued and the latest one's response

vars == <<collection, nextOid, now, pc, req, doc, sent, hist, vdata, vout, vpc, prev,
          form, currentStudents, deleteId, shownErrors, calls, loads>>
srvVars == <<collection, nextOid, now, pc, req, doc, sent, hist>>
valVars == <<vdata, vout, vpc>>
seqVars == <<prev>>
cliVars == <<form, currentStudents, deleteId, shownErrors, calls, loads>>

----------------------------------------------------------------------------
(* Bounds of the model *)

\* concurrent requests in flight
NumSlots == 2
\* async functions of the client suspended at the same time
MaxCalls == 2
\* records created while the page is used
MaxRows == 1
\* ObjectIds the driver can still generate (documents ever inserted)
MaxOid == 2
\* last value the clock reaches
MaxClock == 1

Slots == 1..NumSlots
Calls == 1..MaxCalls

----------------------------------------------------------------------------
(* JavaScript values and strings *)

Undefined == [t |-> "undefined", s |-> <<>>, n |-> 0]
Str(chars) == [t |-> "string", s |-> chars, n |-> 0]
Num(k) == [t |-> "number", s |-> <<>>, n |-> k]

\* !v for the value kinds above: undefined, '' and 0 are falsy
Falsy(v) ==
    \/ v.t = "undefined"
    \/ v.t = "string" /\ v.s = <<>>
    \/ v.t = "number" /\ v.n = 0

WhiteSpace == {" ", "\t"}
Digits == <<"0", "1", "2", "3", "4", "5", "6", "7", "8", "9">>
UpperChars == <<"A", "B", "C", "D", "E", "F", "G", "H", "I", "J", "K", "L", "M",
                "N", "O", "P", "Q", "R", "S", "T", "U", "V", "W", "X", "Y", "Z">>
LowerChars == <<"a", "b", "c", "d", "e", "f", "g", "h", "i", "j", "k", "l", "m",
                "n", "o", "p", "q", "r", "s", "t", "u", "v", "w", "x", "y", "z">>

IsDigit(c) == \E i \in 1..10 : Digits[i] = c
DigitVal(c) == (CHOOSE i \in 1..10 : Digits[i] = c) - 1

\* String.prototype.toLowerCase
LowerChar(c) ==
    IF \E i \in 1..26 : UpperChars[i] = c
    THEN LowerChars[CHOOSE i \in 1..26 : UpperChars[i] = c]
    ELSE c
ToLowerCase(s) == [i \in 1..Len(s) |-> LowerChar(s[i])]

\* String.prototype.trim
RECURSIVE TrimStart(_)
TrimStart(s) ==
    IF s # <<>> /\ Head(s) \in WhiteSpace THEN TrimStart(Tail(s)) ELSE s
RECURSIVE TrimEnd(_)
TrimEnd(s) ==
    IF s # <<>> /\ s[Len(s)] \in WhiteSpace
    THEN TrimEnd(SubSeq(s, 1, Len(s) - 1)) ELSE s
Trim(s) == TrimEnd(TrimStart(s))

\* Number.prototype.toString for a non-negative integer
RECURSIVE NumToString(_)
NumToString(k) ==
    IF k < 10 THEN <<Digits[k + 1]>>
    ELSE Append(NumToString(k \div 10), Digits[(k % 10) + 1])

\* the string a RegExp.test or a Date constructor sees for a value
JsToString(v) ==
    CASE v.t = "string" -> v.s
      [] v.t = "number" -> NumToString(v.n)
      [] OTHER -> <<"u", "n", "d", "e", "f", "i", "n", "e", "d">>

----------------------------------------------------------------------------
(* validateStudent *)

\* /^[^\s@]+@[^\s@]+\.[^\s@]+$/.test(s)
emailRegex(s) ==
    \E i \in 1..Len(s) :
        /\ s[i] = "@"
        /\ i >= 2
        /\ \A k \in 1..Len(s) :
              k # i => (s[k] \notin WhiteSpace /\ s[k] # "@")
        /\ \E j \in (i + 2)..(Len(s) - 1) : s[j] = "."

\* /^[\+]?[(]?[0-9]{3}[)]?[-\s\.]?[0-9]{3}[-\s\.]?[0-9]{4,6}$/.test(s)
\* Every optional class is disjoint from the digit that must follow it, so
\* the match is decided by consuming each optional character when present.
PhoneSep == {"-", "."} \cup WhiteSpace
OptAt(s, p, class) == IF p <= Len(s) /\ s[p] \in class THEN p + 1 ELSE p
DigitsAt(s, p, k) ==
    /\ p + k - 1 <= Len(s)
    /\ \A q \in p..(p + k - 1) : IsDigit(s[q])
phoneRegex(s) ==
    LET p1 == OptAt(s, 1, {"+"})
        p2 == OptAt(s, p1, {"("})
        p3 == OptAt(s, p2 + 3, {")"})
        p4 == OptAt(s, p3, PhoneSep)
        p5 == OptAt(s, p4 + 3, PhoneSep)
        rest == Len(s) - p5 + 1
    IN  /\ DigitsAt(s, p2, 3)
        /\ DigitsAt(s, p4, 3)
        /\ rest \in 4..6
        /\ DigitsAt(s, p5, rest)

validStatuses ==
    { <<"P", "a", "i", "d">>,
      <<"P", "e", "n", "d", "i", "n", "g">>,
      <<"P", "a", "r", "t", "i", "a", "l">>,
      <<"S", "c", "h", "o", "l", "a", "r", "s", "h", "i", "p">> }

\* new Date(v): a number is a time value; a string of the form YYYY-MM-DD
\* naming a day of the calendar is that day; any other string of the input
\* sets used here is an Invalid Date.  (A day number past the end of its
\* month is left out of the input sets.)
InvalidDate == [valid |-> FALSE, y |-> 0, m |-> 0, d |-> 0, ms |-> 0]
IsLeap(y) == (y % 4 = 0 /\ y % 100 # 0) \/ y % 400 = 0
DaysInMonth(y, m) ==
    IF m = 2 THEN (IF IsLeap(y) THEN 29 ELSE 28)
    ELSE IF m \in {4, 6, 9, 11} THEN 30 ELSE 31
Num2(s, p) == 10 * DigitVal(s[p]) + DigitVal(s[p + 1])
MakeDay(y, m, d) == [valid |-> TRUE, y |-> y, m |-> m, d |-> d, ms |-> 0]
ParseDateString(s) ==
    IF /\ Len(s) = 10
       /\ s[5] = "-" /\ s[8] = "-"
       /\ \A p \in {1, 2, 3, 4, 6, 7, 9, 10} : IsDigit(s[p])
    THEN LET y == 100 * Num2(s, 1) + Num2(s, 3)
             m == Num2(s, 6)
             d == Num2(s, 9)
         IN  IF m \in 1..12 /\ d \in 1..DaysInMonth(y, m) THEN MakeDay(y, m, d)
             ELSE InvalidDate
    ELSE InvalidDate
NewDate(v) ==
    CASE v.t = "string" -> ParseDateString(v.s)
      [] v.t = "number" -> [valid |-> TRUE, y |-> 1970, m |-> 1, d |-> 1, ms |-> v.n]
      [] OTHER -> InvalidDate

\* the error strings, named by the rule that pushes them
ErrName == "Name is required and must be at least 2 characters"
ErrEmailRequired == "Email is required"
ErrEmailFormat == "Invalid email format"
ErrPhone == "Invalid phone number format"
ErrCourse == "Course/Service is required and must be at least 2 characters"
ErrFeeStatus == "Valid fee status is required"
ErrJoinRequired == "Join date is required"
ErrJoinFormat == "Invalid join date format"
ErrNotes == "Notes must be text"

nameErrors(data) ==
    IF Falsy(data.name) \/ data.name.t # "string" \/ Len(Trim(data.name.s)) < 2
    THEN <<ErrName>> ELSE <<>>
emailErrors(data) ==
    IF Falsy(data.email) \/ data.email.t # "string" THEN <<ErrEmailRequired>>
    ELSE IF ~emailRegex(data.email.s) THEN <<ErrEmailFormat>> ELSE <<>>
phoneErrors(data) ==
    IF ~Falsy(data.phone) /\ ~phoneRegex(JsToString(data.phone))
    THEN <<ErrPhone>> ELSE <<>>
courseErrors(data) ==
    IF Falsy(data.course) \/ data.course.t # "string" \/ Len(Trim(data.course.s)) < 2
    THEN <<ErrCourse>> ELSE <<>>
feeStatusErrors(data) ==
    IF Falsy(data.feeStatus)
       \/ ~(data.feeStatus.t = "string" /\ data.feeStatus.s \in validStatuses)
    THEN <<ErrFeeStatus>> ELSE <<>>
joinDateErrors(data) ==
    IF Falsy(data.joinDate) THEN <<ErrJoinRequired>>
    ELSE IF ~NewDate(data.joinDate).valid THEN <<ErrJoinFormat>> ELSE <<>>
notesErrors(data) ==
    IF ~Falsy(data.notes) /\ data.notes.t # "string" THEN <<ErrNotes>> ELSE <<>>

\* the function returning at the first rule that fails
validateStudent_FirstOnly(data) ==
    LET all == nameErrors(data) \o emailErrors(data) \o phoneErrors(data)
                  \o courseErrors(data) \o feeStatusErrors(data)
                  \o joinDateErrors(data) \o notesErrors(data)
    IN  IF all = <<>> THEN <<>> ELSE <<Head(all)>>

validateStudent(data) ==
    nameErrors(data) \o emailErrors(data) \o phoneErrors(data)
        \o courseErrors(data) \o feeStatusErrors(data)
        \o joinDateErrors(data) \o notesErrors(data)

----------------------------------------------------------------------------
(* ObjectIds *)

HexDigits == <<"0", "1", "2", "3", "4", "5", "6", "7", "8", "9",
               "a", "b", "c", "d", "e", "f">>
IsHex(c) == \E i \in 1..16 : HexDigits[i] = LowerChar(c)
HexVal(c) == (CHOOSE i \in 1..16 : HexDigits[i] = LowerChar(c)) - 1
OidLen == 24

\* ObjectId.isValid(id) for a string: 24 hexadecimal characters
isValid(id) == Len(id) = OidLen /\ \A i \in 1..Len(id) : IsHex(id[i])

\* new ObjectId(id): the 96-bit value the hex string denotes, in either
\* letter case
RECURSIVE ObjectId(_)
ObjectId(id) ==
    IF id = <<>> THEN 0
    ELSE 16 * ObjectId(SubSeq(id, 1, Len(id) - 1)) + HexVal(id[Len(id)])

\* ObjectId.prototype.toHexString: 24 lower-case hex digits
RECURSIVE HexOf(_, _)
HexOf(v, n) ==
    IF n = 0 THEN <<>> ELSE Append(HexOf(v \div 16, n - 1), HexDigits[(v % 16) + 1])
toHexString(oid) == HexOf(oid, OidLen)

\* the k-th ObjectId the driver generates for an inserted document; the
\* driver never generates the same ObjectId twice
GeneratedOid(k) == 9 + k

----------------------------------------------------------------------------
(* The collection, with its indexes *)

\* a duplicate check that never finds a record
findOneByEmail_NoCheck(coll, email) == {}
findOneByEmail(coll, email) == {d \in coll : d.email = email}
\* the filter without _id: { $ne }
findOneByEmailNotId_NoExclusion(coll, email, oid) == findOneByEmail(coll, email)
findOneByEmailNotId(coll, email, oid) ==
    {d \in coll : d.email = email /\ d._id # oid}
findOneById(coll, oid) == {d \in coll : d._id = oid}

\* the email index created without unique: true
uniqueIndexRejects_NotUnique(coll, email, oid) == FALSE

\* createIndexes([... { key: { email: 1 }, unique: true } ...]): a write
\* that would leave two documents with one email is rejected (E11000)
uniqueIndexRejects(coll, email, oid) ==
    \E d \in coll : d.email = email /\ d._id # oid

----------------------------------------------------------------------------
(* Responses *)

NoResp == [status |-> 0, message |-> "", errors |-> <<>>, data |-> <<>>]
Respond(status, message) ==
    [status |-> status, message |-> message, errors |-> <<>>, data |-> <<>>]
RespondErrors(errors) ==
    [status |-> 400, message |-> "Validation failed", errors |-> errors, data |-> <<>>]
RespondData(status, message, found) ==
    [status |-> status, message |-> message, errors |-> <<>>,
     data |-> IF found = {} THEN <<>> ELSE <<CHOOSE d \in found : TRUE>>]

MsgBadId == "Invalid student ID format"
MsgDuplicate == "A student with this email already exists"
MsgNotFound == "Student not found"
MsgInternal == "Internal server error"

----------------------------------------------------------------------------
(* The synchronous head of each handler, up to its first await *)

\* v?.trim() || ''
OptTrim(v) == IF v.t = "string" THEN Trim(v.s) ELSE <<>>
\* v?.trim() throws a TypeError when v is neither null/undefined nor a string
TrimThrows(v) == v.t = "number"

\* the email stored as sent, without toLowerCase()
student_NoLower(body, t1, t2) ==
    [name |-> Trim(body.name.s),
     email |-> Trim(body.email.s),
     phone |-> OptTrim(body.phone),
     course |-> Trim(body.course.s),
     feeStatus |-> body.feeStatus.s,
     joinDate |-> NewDate(body.joinDate),
     notes |-> OptTrim(body.notes),
     createdAt |-> t1,
     updatedAt |-> t2]

\* the name stored as sent, without trim()
student_NoTrim(body, t1, t2) ==
    [name |-> body.name.s,
     email |-> ToLowerCase(Trim(body.email.s)),
     phone |-> OptTrim(body.phone),
     course |-> Trim(body.course.s),
     feeStatus |-> body.feeStatus.s,
     joinDate |-> NewDate(body.joinDate),
     notes |-> OptTrim(body.notes),
     createdAt |-> t1,
     updatedAt |-> t2]

\* const student = {...} of app.post
student(body, t1, t2) ==
    [name |-> Trim(body.name.s),
     email |-> ToLowerCase(Trim(body.email.s)),
     phone |-> OptTrim(body.phone),
     course |-> Trim(body.course.s),
     feeStatus |-> body.feeStatus.s,
     joinDate |-> NewDate(body.joinDate),
     notes |-> OptTrim(body.notes),
     createdAt |-> t1,
     updatedAt |-> t2]

\* const updateData = {...} of app.put
updateData(body, t) ==
    [name |-> Trim(body.name.s),
     email |-> ToLowerCase(Trim(body.email.s)),
     phone |-> OptTrim(body.phone),
     course |-> Trim(body.course.s),
     feeStatus |-> body.feeStatus.s,
     joinDate |-> NewDate(body.joinDate),
     notes |-> OptTrim(body.notes),
     updatedAt |-> t]

Outcome(r, p, d) == [resp |-> r, pc |-> p, doc |-> d]

postHead(body, t1, t2) ==
    LET errors == validateStudent(body)
    IN  IF errors # <<>> THEN Outcome(RespondErrors(errors), "idle", <<>>)
        ELSE IF TrimThrows(body.phone) \/ TrimThrows(body.notes)
             THEN Outcome(Respond(500, MsgInternal), "idle", <<>>)
             ELSE Outcome(NoResp, "post_findOne", <<student(body, t1, t2)>>)

\* the body validated before the id
putHead_ValidateFirst(id, body, t) ==
    LET errors == validateStudent(body)
    IN  IF errors # <<>> THEN Outcome(RespondErrors(errors), "idle", <<>>)
        ELSE IF ~isValid(id) THEN Outcome(Respond(400, MsgBadId), "idle", <<>>)
        ELSE IF TrimThrows(body.phone) \/ TrimThrows(body.notes)
             THEN Outcome(Respond(500, MsgInternal), "idle", <<>>)
             ELSE Outcome(NoResp, "put_findOne", <<updateData(body, t)>>)

putHead(id, body, t) ==
    IF ~isValid(id) THEN Outcome(Respond(400, MsgBadId), "idle", <<>>)
    ELSE LET errors == validateStudent(body)
         IN  IF errors # <<>> THEN Outcome(RespondErrors(errors), "idle", <<>>)
             ELSE IF TrimThrows(body.phone) \/ TrimThrows(body.notes)
                  THEN Outcome(Respond(500, MsgInternal), "idle", <<>>)
                  ELSE Outcome(NoResp, "put_findOne", <<updateData(body, t)>>)

getHead(id) ==
    IF ~isValid(id) THEN Outcome(Respond(400, MsgBadId), "idle", <<>>)
    ELSE Outcome(NoResp, "get_findOne", <<>>)

deleteHead(id) ==
    IF ~isValid(id) THEN Outcome(Respond(400, MsgBadId), "idle", <<>>)
    ELSE Outcome(NoResp, "delete_deleteOne", <<>>)

----------------------------------------------------------------------------
(* Requests the clients send *)

Body(name, email, phone, course, feeStatus, joinDate, notes) ==
    [name |-> name, email |-> email, phone |-> phone, course |-> course,
     feeStatus |-> feeStatus, joinDate |-> joinDate, notes |-> notes]

EmptyBody ==
    Body(Undefined, Undefined, Undefined, Undefined, Undefined, Undefined, Undefined)

SPaid == Str(<<"P", "a", "i", "d">>)
SPending == Str(<<"P", "e", "n", "d", "i", "n", "g">>)
SJan10 == Str(<<"2", "0", "2", "4", "-", "0", "1", "-", "1", "0">>)
SFeb29 == Str(<<"2", "0", "2", "4", "-", "0", "2", "-", "2", "9">>)
SPhone == Str(<<"1", "2", "3", "-", "4", "5", "6", "-", "7", "8", "9", "0">>)

\* {name:" Jo Lee ", email:"jo@x.co", course:"CS101", feeStatus:"Pending", joinDate:"2024-01-10"}
BodyJo ==
    Body(Str(<<" ", "J", "o", " ", "L", "e", "e", " ">>),
         Str(<<"j", "o", "@", "x", ".", "c", "o">>),
         Undefined,
         Str(<<"C", "S", "1", "0", "1">>),
         SPending, SJan10, Undefined)
\* the same address in upper case, every optional field present
BodyJoUpper ==
    Body(Str(<<"J", "o">>),
         Str(<<"J", "O", "@", "X", ".", "C", "O">>),
         SPhone,
         Str(<<"C", "S", " ">>),
         SPaid, SFeb29, Str(<<" ", "h", "i">>))
\* another address
BodyAl ==
    Body(Str(<<"A", "l">>),
         Str(<<"a", "l", "@", "y", ".", "i", "o">>),
         Str(<<>>),
         Str(<<"A", "r", "t">>),
         SPaid, SJan10, Str(<<>>))
\* name too short, email without a dot after the @, fee status in lower case
BodyBad ==
    Body(Str(<<"J">>),
         Str(<<"j", "o", "@", "x">>),
         Undefined,
         Str(<<"C", "S">>),
         Str(<<"p", "a", "i", "d">>), SJan10, Undefined)
\* phone sent as a JSON number: passes validateStudent, has no trim method
BodyNumPhone ==
    Body(Str(<<"A", "l">>),
         Str(<<"a", "l", "@", "y", ".", "i", "o">>),
         Num(1234567890),
         Str(<<"A", "r", "t">>),
         SPaid, SJan10, Undefined)

Bodies == {BodyJo, BodyJoUpper, BodyAl, BodyBad, BodyNumPhone}

\* the payloads sent to PUT
PutBodies == {BodyJoUpper, BodyAl, BodyBad, BodyNumPhone}

\* :id parameters: the hex form of every ObjectId the driver can generate,
\* the first of them in upper case, and a malformed one
ToUpperCase(s) == [i \in 1..Len(s) |->
    IF \E j \in 1..26 : LowerChars[j] = s[i]
    THEN UpperChars[CHOOSE j \in 1..26 : LowerChars[j] = s[i]] ELSE s[i]]
NotAnId == <<"n", "o", "t", "-", "a", "n", "-", "i", "d">>
IdParams ==
    {ToUpperCase(toHexString(GeneratedOid(1)))}
        \cup {toHexString(GeneratedOid(k)) : k \in 2..MaxOid}
        \cup {NotAnId}

\* the values of the hidden studentId input and of the seven visible fields
Form(studentId, name, email, phone, course, feeStatus, joinDate, notes) ==
    [studentId |-> studentId, name |-> name, email |-> email, phone |-> phone,
     course |-> course, feeStatus |-> feeStatus, joinDate |-> joinDate,
     notes |-> notes]

\* new Date().toISOString().split('T')[0] on the day of the run
Today == <<"2", "0", "2", "4", "-", "0", "3", "-", "0", "5">>

\* form.reset(): every field at the value the page gives it, empty
formReset == Form(<<>>, <<>>, <<>>, <<>>, <<>>, <<>>, <<>>, <<>>)

\* setDefaultJoinDate()
setDefaultJoinDate(f) == [f EXCEPT !.joinDate = Today]

\* studentData of handleFormSubmit, as JSON.stringify sends it
studentData(f) ==
    Body(Str(Trim(f.name)), Str(Trim(f.email)), Str(Trim(f.phone)),
         Str(Trim(f.course)), Str(f.feeStatus), Str(f.joinDate), Str(Trim(f.notes)))

\* the forms the user fills in on the page: a student, the same without an
\* email
FormJo ==
    Form(<<>>, <<"J", "o", " ", "L", "e", "e">>, <<"j", "o", "@", "x", ".", "c", "o">>,
         <<>>, <<"C", "S", "1", "0", "1">>, SPending.s, SJan10.s, <<>>)
Typed ==
    {FormJo, [FormJo EXCEPT !.email = <<>>]}

\* the payloads and the ids the page sends
ClientBodies == {studentData(f) : f \in Typed}
ClientIds == {toHexString(GeneratedOid(k)) : k \in 1..MaxRows}

\* The handlers' heads and the ObjectId parse are pure: they are tabulated
\* once over the requests the clients send.
Times == 0..MaxClock
postHeadOf ==
    [body \in Bodies \cup ClientBodies |->
        [t1 \in Times |-> [t2 \in Times |-> postHead(body, t1, t2)]
                              @@ <<>>] @@ <<>>] @@ <<>>
putHeadOf ==
    [id \in IdParams \cup ClientIds |->
        [body \in Bodies \cup ClientBodies |-> [t \in Times |-> putHead(id, body, t)]
                            @@ <<>>] @@ <<>>] @@ <<>>
getHeadOf == [id \in IdParams \cup ClientIds |-> getHead(id)] @@ <<>>
deleteHeadOf == [id \in IdParams \cup ClientIds |-> deleteHead(id)] @@ <<>>
ObjectIdOf == [id \in {i \in IdParams \cup ClientIds : isValid(i)} |-> ObjectId(id)] @@ <<>>
isValidOf == [id \in IdParams \cup {<<>>} |-> isValid(id)] @@ <<>>

NoReq == [method |-> "none", id |-> <<>>, body |-> EmptyBody]
Request(method, id, body) == [method |-> method, id |-> id, body |-> body]

----------------------------------------------------------------------------
(* The client's state: the form, the async calls in flight *)

\* an async function of the client: which one, the await it is suspended
\* at, the request it sent and, once it arrived, the response
NoCall == [fn |-> "none", pc |-> "done", req |-> NoReq, resp |-> NoResp]
NoLoads == [newest |-> 0, got |-> "none", data |-> <<>>]

\* the page not opened
NoClient ==
    /\ form = formReset
    /\ currentStudents = <<>>
    /\ deleteId = <<>>
    /\ shownErrors = {}
    /\ calls = [c \in Calls |-> NoCall]
    /\ loads = NoLoads

----------------------------------------------------------------------------
(* The server: one action per stretch of handler code between two awaits *)

NoSent == [req |-> NoReq, resp |-> NoResp]
NoHist == [fresh |-> {}, deleted |-> {}]

Init ==
    /\ collection = {}
    /\ nextOid = 0
    /\ now = 0
    /\ pc = [s \in Slots |-> "idle"]
    /\ req = [s \in Slots |-> NoReq]
    /\ doc = [s \in Slots |-> <<>>]
    /\ sent = NoSent
    /\ hist = NoHist
    /\ vdata = EmptyBody
    /\ vout = [id |-> <<>>, errors |-> <<>>, resp |-> NoResp, pc |-> "idle"]
    /\ vpc = "off"
    /\ prev = NoResp
    /\ NoClient

\* new Date(): the clock never runs backwards, and may have advanced by any
\* amount since it was last read
ClockReads == now..MaxClock

\* a handler runs from the arrival of its request to its first await, or to
\* the response it sends before any await; t is the last value it read from
\* the clock.  The concurrent invocations are interchangeable: an arriving
\* request takes the first free slot.
Begin(s, r, out, t) ==
    /\ pc[s] = "idle"
    /\ \A q \in Slots : q < s => pc[q] # "idle"
    /\ now' = t
    /\ IF out.pc = "idle"
       THEN /\ sent' = [req |-> r, resp |-> out.resp]
            /\ UNCHANGED <<pc, req, doc>>
       ELSE /\ sent' = NoSent
            /\ req' = [req EXCEPT ![s] = r]
            /\ pc' = [pc EXCEPT ![s] = out.pc]
            /\ doc' = [doc EXCEPT ![s] = out.doc]
    /\ UNCHANGED <<collection, nextOid, hist, valVars, seqVars, cliVars>>

\* a handler resumes after an await and suspends at the next one
Continue(s, p) ==
    /\ pc' = [pc EXCEPT ![s] = p]
    /\ sent' = NoSent
    /\ UNCHANGED <<req, doc>>

\* a handler sends its response and ends
Finish(s, r) ==
    /\ sent' = [req |-> req[s], resp |-> r]
    /\ pc' = [pc EXCEPT ![s] = "idle"]
    /\ req' = [req EXCEPT ![s] = NoReq]
    /\ doc' = [doc EXCEPT ![s] = <<>>]

\* ObjectIds the inserts in flight will still draw
InsertsInFlight == Cardinality({s \in Slots : pc[s] \in {"post_findOne", "post_insertOne"}})

\* a record leaves the untouched ones when it is updated or deleted
Touch(h, oid) == [h EXCEPT !.fresh = {c \in @ : c.data._id # oid}]

\* app.post('/api/records'): validate, prepare the document; createdAt and
\* updatedAt are two reads of the clock
PostStart(s, body) ==
    \E t1 \in ClockReads : \E t2 \in t1..MaxClock :
        LET out == postHeadOf[body][t1][t2]
        IN  /\ out.pc = "post_findOne" => nextOid + InsertsInFlight < MaxOid
            /\ out.pc = "idle" => (t1 = now /\ t2 = now)
            /\ Begin(s, Request("POST", <<>>, body), out, t2)

\* ... await findOne({ email }): duplicate check
PostFindOne(s) ==
    /\ pc[s] = "post_findOne"
    /\ IF findOneByEmail(collection, doc[s][1].email) # {}
       THEN Finish(s, Respond(409, MsgDuplicate))
       ELSE Continue(s, "post_insertOne")
    /\ UNCHANGED <<collection, nextOid, now, hist, valVars, seqVars, cliVars>>

\* what insertOne does to the collection: the documents after it, or the
\* collection as it was when the unique index rejects the write
insertOne(coll, d, oid) ==
    IF uniqueIndexRejects(coll, d.email, oid)
    THEN [ok |-> FALSE, coll |-> coll]
    ELSE [ok |-> TRUE, coll |-> coll \cup {[_id |-> oid] @@ d}]

\* ... await insertOne(student): the driver assigns the _id; a rejected
\* write throws into the catch block
PostInsertOne(s) ==
    LET oid == GeneratedOid(nextOid + 1)
        res == insertOne(collection, doc[s][1], oid)
        stored == [_id |-> oid] @@ doc[s][1]
    IN  /\ pc[s] = "post_insertOne"
        /\ nextOid' = nextOid + 1
        /\ collection' = res.coll
        /\ IF res.ok
           THEN /\ Finish(s, RespondData(201, "Student created successfully", {stored}))
                /\ hist' = [hist EXCEPT !.fresh =
                                @ \cup {[body |-> req[s].body, data |-> stored]}]
           ELSE /\ Finish(s, Respond(500, MsgInternal))
                /\ UNCHANGED hist
        /\ UNCHANGED <<now, valVars, seqVars, cliVars>>

\* app.get('/api/records/:id')
GetStart(s, id) == Begin(s, Request("GET", id, EmptyBody), getHeadOf[id], now)

GetFindOne(s) ==
    LET found == findOneById(collection, ObjectIdOf[req[s].id])
    IN  /\ pc[s] = "get_findOne"
        /\ IF found = {}
           THEN Finish(s, Respond(404, MsgNotFound))
           ELSE Finish(s, RespondData(200, "", found))
        /\ UNCHANGED <<collection, nextOid, now, hist, valVars, seqVars, cliVars>>

\* app.put('/api/records/:id'): validate id and body, prepare the update
PutStart(s, id, body) ==
    \E t \in ClockReads :
        LET out == putHeadOf[id][body][t]
        IN  /\ out.pc = "idle" => t = now
            /\ Begin(s, Request("PUT", id, body), out, t)

\* ... await findOne({ email, _id: { $ne } }): uniqueness excluding itself
PutFindOne(s) ==
    /\ pc[s] = "put_findOne"
    /\ IF findOneByEmailNotId(collection, doc[s][1].email, ObjectIdOf[req[s].id]) # {}
       THEN Finish(s, Respond(409, MsgDuplicate))
       ELSE Continue(s, "put_updateOne")
    /\ UNCHANGED <<collection, nextOid, now, hist, valVars, seqVars, cliVars>>

\* the whole document replaced, createdAt with it
applySet_Replace(d, u) ==
    [d EXCEPT !.name = u.name, !.email = u.email, !.phone = u.phone,
              !.course = u.course, !.feeStatus = u.feeStatus,
              !.joinDate = u.joinDate, !.notes = u.notes,
              !.createdAt = u.updatedAt, !.updatedAt = u.updatedAt]

\* { $set: updateData } applied to a stored document
applySet(d, u) ==
    [d EXCEPT !.name = u.name, !.email = u.email, !.phone = u.phone,
              !.course = u.course, !.feeStatus = u.feeStatus,
              !.joinDate = u.joinDate, !.notes = u.notes,
              !.updatedAt = u.updatedAt]

\* updateOne called with { upsert: true }
updateOne_Upsert(coll, oid, u) ==
    LET target == findOneById(coll, oid)
    IN  IF target = {}
        THEN [matched |-> FALSE, ok |-> ~uniqueIndexRejects(coll, u.email, oid),
              coll |-> IF uniqueIndexRejects(coll, u.email, oid) THEN coll
                       ELSE coll \cup {[_id |-> oid, createdAt |-> u.updatedAt] @@ u}]
        ELSE IF uniqueIndexRejects(coll, u.email, oid)
             THEN [matched |-> TRUE, ok |-> FALSE, coll |-> coll]
             ELSE [matched |-> TRUE, ok |-> TRUE,
                   coll |-> (coll \ target) \cup {applySet(d, u) : d \in target}]

\* what updateOne({ _id }, { $set }) does: matched says whether a document
\* has the _id, ok whether the unique index let the write through
updateOne(coll, oid, u) ==
    LET target == findOneById(coll, oid)
    IN  IF target = {} THEN [matched |-> FALSE, ok |-> TRUE, coll |-> coll]
        ELSE IF uniqueIndexRejects(coll, u.email, oid)
             THEN [matched |-> TRUE, ok |-> FALSE, coll |-> coll]
             ELSE [matched |-> TRUE, ok |-> TRUE,
                   coll |-> (coll \ target) \cup {applySet(d, u) : d \in target}]

\* the handler without the matchedCount test
PutUpdateOne_IgnoreMatched(s) ==
    LET oid == ObjectIdOf[req[s].id]
        res == updateOne(collection, oid, doc[s][1])
    IN  /\ pc[s] = "put_updateOne"
        /\ collection' = res.coll
        /\ IF ~res.ok
           THEN Finish(s, Respond(500, MsgInternal)) /\ UNCHANGED hist
           ELSE Continue(s, "put_findUpdated") /\ hist' = Touch(hist, oid)
        /\ UNCHANGED <<nextOid, now, valVars, seqVars, cliVars>>

\* ... await updateOne: 404 when nothing matched, the catch block when the
\* unique index rejects the write
PutUpdateOne(s) ==
    LET oid == ObjectIdOf[req[s].id]
        res == updateOne(collection, oid, doc[s][1])
    IN  /\ pc[s] = "put_updateOne"
        /\ collection' = res.coll
        /\ IF ~res.ok
           THEN Finish(s, Respond(500, MsgInternal)) /\ UNCHANGED hist
           ELSE IF ~res.matched
                THEN Finish(s, Respond(404, MsgNotFound)) /\ UNCHANGED hist
                ELSE Continue(s, "put_findUpdated") /\ hist' = Touch(hist, oid)
        /\ UNCHANGED <<nextOid, now, valVars, seqVars, cliVars>>

\* ... await findOne({ _id }): fetch the updated document and answer 200
PutFindUpdated(s) ==
    /\ pc[s] = "put_findUpdated"
    /\ Finish(s, RespondData(200, "Student updated successfully",
                             findOneById(collection, ObjectIdOf[req[s].id])))
    /\ UNCHANGED <<collection, nextOid, now, hist, valVars, seqVars, cliVars>>

\* app.delete('/api/records/:id')
DeleteStart(s, id) == Begin(s, Request("DELETE", id, EmptyBody), deleteHeadOf[id], now)

deleteOne(coll, oid) == coll \ findOneById(coll, oid)

\* the deletedCount test the wrong way round
DeleteOne_InvertedCount(s) ==
    LET oid == ObjectIdOf[req[s].id]
    IN  /\ pc[s] = "delete_deleteOne"
        /\ collection' = deleteOne(collection, oid)
        /\ IF collection' # collection
           THEN /\ Finish(s, Respond(404, MsgNotFound))
                /\ hist' = [Touch(hist, oid) EXCEPT !.deleted = @ \cup {oid}]
           ELSE Finish(s, Respond(200, "Student deleted successfully")) /\ UNCHANGED hist
        /\ UNCHANGED <<nextOid, now, valVars, seqVars, cliVars>>

\* ... await deleteOne({ _id }): 404 when nothing was deleted
DeleteOne(s) ==
    LET oid == ObjectIdOf[req[s].id]
    IN  /\ pc[s] = "delete_deleteOne"
        /\ collection' = deleteOne(collection, oid)
        /\ IF collection' = collection
           THEN Finish(s, Respond(404, MsgNotFound)) /\ UNCHANGED hist
           ELSE /\ Finish(s, Respond(200, "Student deleted successfully"))
                /\ hist' = [Touch(hist, oid) EXCEPT !.deleted = @ \cup {oid}]
        /\ UNCHANGED <<nextOid, now, valVars, seqVars, cliVars>>

Next ==
    \/ \E s \in Slots, body \in Bodies : PostStart(s, body)
    \/ \E s \in Slots : PostFindOne(s)
    \/ \E s \in Slots : PostInsertOne(s)
    \/ \E s \in Slots, id \in IdParams : GetStart(s, id)
    \/ \E s \in Slots : GetFindOne(s)
    \/ \E s \in Slots, id \in IdParams, body \in PutBodies : PutStart(s, id, body)
    \/ \E s \in Slots : PutFindOne(s)
    \/ \E s \in Slots : PutUpdateOne(s)
    \/ \E s \in Slots : PutFindUpdated(s)
    \/ \E s \in Slots, id \in IdParams : DeleteStart(s, id)
    \/ \E s \in Slots : DeleteOne(s)

Spec == Init /\ [][Next]_vars

----------------------------------------------------------------------------
(* app.get('/api/records'): the list with its filter and sort *)

\* req.query: every parameter is a string or absent
Query(search, status, sortBy, sortOrder) ==
    [search |-> search, status |-> status, sortBy |-> sortBy, sortOrder |-> sortOrder]
NoQuery == Query(Undefined, Undefined, Undefined, Undefined)

\* { $regex: pat, $options: 'i' } on a field: the pattern matches somewhere
\* in the text, letters compared without case and "." matching any
\* character.  The patterns sent here hold no other metacharacter.
regexMatchAt(pat, text, off) ==
    \A k \in 1..Len(pat) :
        pat[k] = "." \/ LowerChar(pat[k]) = LowerChar(text[off + k])
regexTest(pat, text) ==
    \E off \in 0..(Len(text) - Len(pat)) : regexMatchAt(pat, text, off)

\* the filter object of lines 201-213 applied to one document
matchesFilter(d, q) ==
    /\ Falsy(q.status) \/ d.feeStatus = q.status.s
    /\ Falsy(q.search) \/ regexTest(q.search.s, d.name)
                       \/ regexTest(q.search.s, d.email)
                       \/ regexTest(q.search.s, d.course)
find(coll, q) == {d \in coll : matchesFilter(d, q)}

\* a Date as the number the store compares
DateKey(date) == ((date.y * 12 + date.m) * 31 + date.d) * 1000 + date.ms

SJoinDate == <<"j", "o", "i", "n", "D", "a", "t", "e">>
SCreatedAt == <<"c", "r", "e", "a", "t", "e", "d", "A", "t">>
SDesc == <<"d", "e", "s", "c">>
SAsc == <<"a", "s", "c">>

\* const { sortBy = 'joinDate', sortOrder = 'desc' } = req.query;
\* sortOptions[sortBy] = sortOrder === 'desc' ? -1 : 1.  The sort fields
\* sent here are joinDate and createdAt.
sortField(q) == IF q.sortBy.t = "undefined" THEN SJoinDate ELSE q.sortBy.s
sortDirection(q) ==
    IF q.sortOrder.t = "undefined" \/ q.sortOrder.s = SDesc THEN -1 ELSE 1
SortKey(d, field) ==
    CASE field = SJoinDate -> DateKey(d.joinDate)
      [] field = SCreatedAt -> d.createdAt

\* the sequences over a set of documents, each document once
RECURSIVE Orderings(_)
Orderings(S) ==
    IF S = {} THEN {<<>>}
    ELSE UNION {{<<d>> \o rest : rest \in Orderings(S \ {d})} : d \in S}

\* .sort(sortOptions).toArray(): the store returns the documents in the
\* order of the sort key; documents with equal keys come in any order
sortToArray(S, q) ==
    {arr \in Orderings(S) :
        \A i \in 1..Len(arr), j \in 1..Len(arr) :
            i < j => sortDirection(q) * SortKey(arr[i], sortField(q))
                        <= sortDirection(q) * SortKey(arr[j], sortField(q))}

\* res.status(200).json({ success: true, count: students.length, data: students })
RespondList(students) ==
    [status |-> 200, message |-> "", errors |-> <<>>, data |-> students,
     count |-> Len(students)]

----------------------------------------------------------------------------
(* The server answering one request at a time: each handler run from the   *)
(* arrival of the request to its response, no other request in between    *)

ListRequest(q) == [method |-> "LIST", id |-> <<>>, body |-> EmptyBody, query |-> q]

\* what a handler run leaves: the response, the collection and the number
\* of ObjectIds drawn
Served(resp, coll, n) == [resp |-> resp, coll |-> coll, nextOid |-> n]

\* app.post('/api/records') run to its response
postRecords(coll, n, body, t1, t2) ==
    LET out == postHeadOf[body][t1][t2]
        oid == GeneratedOid(n + 1)
        res == insertOne(coll, out.doc[1], oid)
    IN  IF out.pc = "idle" THEN Served(out.resp, coll, n)
        ELSE IF findOneByEmail(coll, out.doc[1].email) # {}
             THEN Served(Respond(409, MsgDuplicate), coll, n)
             ELSE IF res.ok
                  THEN Served(RespondData(201, "Student created successfully",
                                          {[_id |-> oid] @@ out.doc[1]}),
                              res.coll, n + 1)
                  ELSE Served(Respond(500, MsgInternal), coll, n + 1)

\* app.get('/api/records') run to its response, once for every order the
\* sort may return
getRecords(coll, q) == {RespondList(arr) : arr \in sortToArray(find(coll, q), q)}

\* app.get('/api/records/:id') run to its response
getRecord(coll, id) ==
    LET out == getHeadOf[id]
        found == findOneById(coll, ObjectIdOf[id])
    IN  IF out.pc = "idle" THEN out.resp
        ELSE IF found = {} THEN Respond(404, MsgNotFound)
             ELSE RespondData(200, "", found)

\* app.put('/api/records/:id') run to its response
putRecord(coll, n, id, body, t) ==
    LET out == putHeadOf[id][body][t]
        oid == ObjectIdOf[id]
        res == updateOne(coll, oid, out.doc[1])
    IN  IF out.pc = "idle" THEN Served(out.resp, coll, n)
        ELSE IF findOneByEmailNotId(coll, out.doc[1].email, oid) # {}
             THEN Served(Respond(409, MsgDuplicate), coll, n)
             ELSE IF ~res.ok THEN Served(Respond(500, MsgInternal), coll, n)
             ELSE IF ~res.matched THEN Served(Respond(404, MsgNotFound), coll, n)
             ELSE Served(RespondData(200, "Student updated successfully",
                                     findOneById(res.coll, oid)),
                         res.coll, n)

\* app.delete('/api/records/:id') run to its response
deleteRecord(coll, n, id) ==
    LET out == deleteHeadOf[id]
        left == deleteOne(coll, ObjectIdOf[id])
    IN  IF out.pc = "idle" THEN Served(out.resp, coll, n)
        ELSE IF left = coll THEN Served(Respond(404, MsgNotFound), coll, n)
             ELSE Served(Respond(200, "Student deleted successfully"), left, n)

\* the search texts, fee statuses and sorts the list is asked with
Searches ==
    {Undefined, Str(<<>>), Str(<<"J", "O">>), Str(<<"x", ".", "c">>),
     Str(<<"o", ".", "l">>), Str(<<"a", "r", "t">>)}
Statuses == {Undefined, SPaid, Str(<<"p", "a", "i", "d">>)}
Sorts ==
    {<<Undefined, Undefined>>, <<Undefined, Str(SAsc)>>, <<Str(SCreatedAt), Str(SDesc)>>}
Queries ==
    {Query(search, status, sort[1], sort[2]) :
        search \in Searches, status \in Statuses, sort \in Sorts}

\* the response leaves and the store is as the handler left it
Answer(r, out, t) ==
    /\ sent' = [req |-> r, resp |-> out.resp]
    /\ collection' = out.coll
    /\ nextOid' = out.nextOid
    /\ now' = t
    /\ prev' = (IF r = sent.req THEN sent.resp ELSE NoResp)
    /\ UNCHANGED <<pc, req, doc, hist, valVars, cliVars>>

SeqPost(body) ==
    \E t1 \in ClockReads : \E t2 \in t1..MaxClock :
        /\ postHeadOf[body][t1][t2].pc = "idle" => (t1 = now /\ t2 = now)
        /\ postHeadOf[body][t1][t2].pc # "idle" => nextOid < MaxOid
        /\ Answer(Request("POST", <<>>, body),
                  postRecords(collection, nextOid, body, t1, t2), t2)

SeqList(q) ==
    \E resp \in getRecords(collection, q) :
        Answer(ListRequest(q), Served(resp, collection, nextOid), now)

SeqGet(id) ==
    Answer(Request("GET", id, EmptyBody),
           Served(getRecord(collection, id), collection, nextOid), now)

SeqPut(id, body) ==
    \E t \in ClockReads :
        /\ putHeadOf[id][body][t].pc = "idle" => t = now
        /\ Answer(Request("PUT", id, body),
                  putRecord(collection, nextOid, id, body, t), t)

SeqDelete(id) ==
    Answer(Request("DELETE", id, EmptyBody),
           deleteRecord(collection, nextOid, id), now)

SeqNext ==
    \/ \E body \in Bodies : SeqPost(body)
    \/ \E q \in Queries : SeqList(q)
    \/ \E id \in IdParams : SeqGet(id)
    \/ \E id \in IdParams, body \in PutBodies : SeqPut(id, body)
    \/ \E id \in IdParams : SeqDelete(id)

SeqSpec == Init /\ [][SeqNext]_vars

----------------------------------------------------------------------------
(* The validation harness: validateStudent and the handlers' heads applied *)
(* to payloads drawn field by field                                        *)

VNames == {Undefined, Str(<<" ", "J", " ">>), Str(<<" ", "J", "o", " ">>), Num(7)}
VEmails ==
    {Undefined, Str(<<"A", "@", "b", ".", "c">>), Str(<<"a", "@", "b">>),
     Str(<<"a", "@", ".", "c">>), Str(<<" ", "a", "@", "b", ".", "c">>), Num(7)}
VPhones ==
    {Undefined, SPhone,
     Str(<<"+", "(", "1", "2", "3", ")", " ", "4", "5", "6", ".", "7", "8", "9", "0", "1", "2">>),
     Str(<<"1", "2", "-", "3", "4", "5", "6">>), Num(1234567890)}
VCourses == {Undefined, Str(<<"C", " ">>), Str(<<"C", "S", " ">>)}
VFeeStatuses == {Undefined, SPending, Str(<<"p", "a", "i", "d">>)}
VJoinDates ==
    {Undefined, SFeb29, Str(<<"2", "0", "2", "4", "-", "1", "3", "-", "0", "1">>),
     Str(<<"s", "o", "o", "n">>), Num(5)}
VNotes == {Undefined, Str(<<" ", "h", "i">>), Num(7), Num(0)}

ValPayloads ==
    {Body(n, e, p, c, f, j, o) :
        n \in VNames, e \in VEmails, p \in VPhones, c \in VCourses,
        f \in VFeeStatuses, j \in VJoinDates, o \in VNotes}

NoOut == [id |-> <<>>, errors |-> <<>>, resp |-> NoResp, pc |-> "idle"]

ValInit ==
    /\ collection = {}
    /\ nextOid = 0
    /\ now = 0
    /\ pc = [s \in Slots |-> "idle"]
    /\ req = [s \in Slots |-> NoReq]
    /\ doc = [s \in Slots |-> <<>>]
    /\ sent = NoSent
    /\ hist = NoHist
    /\ vdata \in ValPayloads
    /\ vout = NoOut
    /\ vpc = "init"
    /\ prev = NoResp
    /\ NoClient

\* validateStudent(data)
ValValidate ==
    /\ vpc = "init"
    /\ vpc' = "validateStudent"
    /\ vout' = [NoOut EXCEPT !.errors = validateStudent(vdata)]
    /\ UNCHANGED <<vdata, srvVars, seqVars, cliVars>>

\* the head of app.post with the payload as req.body
ValPost ==
    /\ vpc = "init"
    /\ vpc' = "post"
    /\ LET out == postHead(vdata, now, now)
       IN  vout' = [id |-> <<>>, errors |-> out.resp.errors, resp |-> out.resp, pc |-> out.pc]
    /\ UNCHANGED <<vdata, srvVars, seqVars, cliVars>>

\* the head of app.put with the payload as req.body
ValPut(id) ==
    /\ vpc = "init"
    /\ vpc' = "put"
    /\ LET out == putHead(id, vdata, now)
       IN  vout' = [id |-> id, errors |-> out.resp.errors, resp |-> out.resp, pc |-> out.pc]
    /\ UNCHANGED <<vdata, srvVars, seqVars, cliVars>>

ValNext ==
    \/ ValValidate
    \/ ValPost
    \/ \E id \in IdParams : ValPut(id)

ValSpec == ValInit /\ [][ValNext]_vars

----------------------------------------------------------------------------
(* The client's validation and the payload it sends *)

\* isValidEmail and isValidPhone test the regular expressions of the server
isValidEmail(email) == emailRegex(email)
isValidPhone(phone) == phoneRegex(phone)

\* validateForm(): the fields showError is called for
fieldError(fieldId, broken) == IF broken THEN {fieldId} ELSE {}
formErrors(f) ==
    fieldError("name", Len(Trim(f.name)) < 2)
        \cup fieldError("email", Trim(f.email) = <<>> \/ ~isValidEmail(Trim(f.email)))
        \cup fieldError("phone", Trim(f.phone) # <<>> /\ ~isValidPhone(Trim(f.phone)))
        \cup fieldError("course", Trim(f.course) = <<>>)
        \cup fieldError("feeStatus", f.feeStatus = <<>>)
        \cup fieldError("joinDate", f.joinDate = <<>>)
validateForm(f) == formErrors(f) = {}

\* what the user can enter in each field
FNames == {<<>>, <<" ", "J", " ">>, <<" ", "J", "o", " ">>}
FEmails == {<<>>, <<" ", "a", "@", "b", ".", "c", " ">>, <<"a", "@", "b">>}
FPhones == {<<>>, SPhone.s, <<"1", "2", "-", "3", "4", "5", "6">>}
FCourses == {<<>>, <<" ">>, <<"C">>, <<"C", "S", " ">>}
FFeeStatuses == {<<>>, SPaid.s}
FJoinDates == {<<>>, Today}
FNotes == {<<>>, <<" ", "h", "i">>}
FormInputs ==
    {Form(<<>>, n, e, p, c, f, j, o) :
        n \in FNames, e \in FEmails, p \in FPhones, c \in FCourses,
        f \in FFeeStatuses, j \in FJoinDates, o \in FNotes}

FormValInit ==
    /\ collection = {}
    /\ nextOid = 0
    /\ now = 0
    /\ pc = [s \in Slots |-> "idle"]
    /\ req = [s \in Slots |-> NoReq]
    /\ doc = [s \in Slots |-> <<>>]
    /\ sent = NoSent
    /\ hist = NoHist
    /\ vdata = EmptyBody
    /\ vout = NoOut
    /\ vpc = "init"
    /\ prev = NoResp
    /\ form \in FormInputs
    /\ currentStudents = <<>>
    /\ deleteId = <<>>
    /\ shownErrors = {}
    /\ calls = [c \in Calls |-> NoCall]
    /\ loads = NoLoads

\* validateForm() on the form, and validateStudent on the payload
\* handleFormSubmit builds from it
FormValidate ==
    /\ vpc = "init"
    /\ vpc' = "form"
    /\ vdata' = studentData(form)
    /\ vout' = [NoOut EXCEPT !.pc = IF validateForm(form) THEN "accepted" ELSE "rejected",
                             !.errors = validateStudent(studentData(form))]
    /\ UNCHANGED <<srvVars, seqVars, cliVars>>

FormValNext == FormValidate

FormValSpec == FormValInit /\ [][FormValNext]_vars

----------------------------------------------------------------------------
(* The page: the user's actions, the async functions from await to await,  *)
(* and the server answering their requests one at a time                   *)

\* a number in at least w digits
Pad(k, w) ==
    LET s == NumToString(k)
    IN  IF Len(s) >= w THEN s ELSE [i \in 1..(w - Len(s)) |-> "0"] \o s
\* new Date(student.joinDate).toISOString().split('T')[0]
ISODate(date) == Pad(date.y, 4) \o <<"-">> \o Pad(date.m, 2) \o <<"-">> \o Pad(date.d, 2)

\* populateFormForEdit(student): the _id arrives as its hex string
populateFormForEdit(d) ==
    Form(toHexString(d._id), d.name, d.email, d.phone,
         d.course, d.feeStatus, ISODate(d.joinDate), d.notes)

\* resetForm(): form.reset(), the id cleared, today as join date
resetForm == setDefaultJoinDate([formReset EXCEPT !.studentId = <<>>])

\* response.ok
Ok(resp) == resp.status \in 200..299

\* a fetch sent, its response awaited
Fetch(fn, r) == [fn |-> fn, pc |-> "fetch", req |-> r, resp |-> NoResp]
ListAll == ListRequest(NoQuery)

\* the ids of the rows renderTable(currentStudents) shows buttons for
RowIds == {toHexString(currentStudents[i]._id) : i \in 1..Len(currentStudents)}

\* a call starts in the first free place
Free(c) == calls[c].fn = "none" /\ \A q \in Calls : q < c => calls[q].fn # "none"

\* the history of the list requests: c sends the most recent one
Issued(c) == [newest |-> c, got |-> "pending", data |-> <<>>]
\* ... and the most recent one ends, with or without a list
Ended(c, got, data) ==
    IF loads.newest = c THEN [newest |-> c, got |-> got, data |-> data] ELSE loads

\* DOMContentLoaded: loadStudents() is called, the join date set to today
ClientInit ==
    /\ collection = {}
    /\ nextOid = 0
    /\ now = 0
    /\ pc = [s \in Slots |-> "idle"]
    /\ req = [s \in Slots |-> NoReq]
    /\ doc = [s \in Slots |-> <<>>]
    /\ sent = NoSent
    /\ hist = NoHist
    /\ vdata = EmptyBody
    /\ vout = NoOut
    /\ vpc = "off"
    /\ prev = NoResp
    /\ form = setDefaultJoinDate(formReset)
    /\ currentStudents = <<>>
    /\ deleteId = <<>>
    /\ shownErrors = {}
    /\ calls = [c \in Calls |-> IF c = 1 THEN Fetch("loadStudents", ListAll) ELSE NoCall]
    /\ loads = Issued(1)

\* the variables of the server and of the harnesses a client step leaves
ClientFrame == UNCHANGED <<pc, req, doc, sent, hist, now, valVars, seqVars>>
ServerFrame == UNCHANGED <<collection, nextOid>>

\* the user fills in the visible fields
TypeForm(f) ==
    /\ form' = [f EXCEPT !.studentId = form.studentId]
    /\ form' # form
    /\ UNCHANGED <<currentStudents, deleteId, shownErrors, calls, loads>>
    /\ ClientFrame /\ ServerFrame

\* handleFormSubmit up to await fetch: validateForm shows the errors and the
\* handler returns, or the request is sent, PUT when studentId is set
HandleFormSubmit(c) ==
    /\ shownErrors' = formErrors(form)
    /\ IF ~validateForm(form)
       THEN UNCHANGED calls
       ELSE /\ Free(c)
            /\ calls' = [calls EXCEPT ![c] =
                  Fetch("handleFormSubmit",
                        IF form.studentId # <<>>
                        THEN Request("PUT", form.studentId, studentData(form))
                        ELSE Request("POST", <<>>, studentData(form)))]
    /\ UNCHANGED <<form, currentStudents, deleteId, loads>>
    /\ ClientFrame /\ ServerFrame

\* the cancel button: resetForm()
CancelEdit ==
    /\ form' = resetForm
    /\ shownErrors' = {}
    /\ UNCHANGED <<currentStudents, deleteId, calls, loads>>
    /\ ClientFrame /\ ServerFrame

\* editStudent(id) from a row of the table: fetchStudentById up to await fetch
EditStudent(c, id) ==
    /\ Free(c)
    /\ id \in RowIds
    /\ calls' = [calls EXCEPT ![c] = Fetch("fetchStudentById", Request("GET", id, EmptyBody))]
    /\ UNCHANGED <<form, currentStudents, deleteId, shownErrors, loads>>
    /\ ClientFrame /\ ServerFrame

\* showDeleteModal(id, name) from a row of the table
ShowDeleteModal(id) ==
    /\ id \in RowIds
    /\ deleteId' = id
    /\ UNCHANGED <<form, currentStudents, shownErrors, calls, loads>>
    /\ ClientFrame /\ ServerFrame

\* closeDeleteModal() from the modal's cancel button
CloseDeleteModal ==
    /\ deleteId # <<>>
    /\ deleteId' = <<>>
    /\ UNCHANGED <<form, currentStudents, shownErrors, calls, loads>>
    /\ ClientFrame /\ ServerFrame

\* handleDelete up to await fetch
HandleDelete(c) ==
    /\ deleteId # <<>>
    /\ Free(c)
    /\ calls' = [calls EXCEPT ![c] = Fetch("handleDelete", Request("DELETE", deleteId, EmptyBody))]
    /\ UNCHANGED <<form, currentStudents, deleteId, shownErrors, loads>>
    /\ ClientFrame /\ ServerFrame

\* the handler of a request run to its response; the clock stands still
\* while the page is used
handle(coll, n, r, t) ==
    CASE r.method = "LIST" -> {Served(resp, coll, n) : resp \in getRecords(coll, r.query)}
      [] r.method = "POST" -> {postRecords(coll, n, r.body, t, t)}
      [] r.method = "GET" -> {Served(getRecord(coll, r.id), coll, n)}
      [] r.method = "PUT" -> {putRecord(coll, n, r.id, r.body, t)}
      [] r.method = "DELETE" -> {deleteRecord(coll, n, r.id)}

\* the server answers the request of a call; the response is on its way
ServerAnswers(c) ==
    /\ calls[c].pc = "fetch"
    /\ \E out \in handle(collection, nextOid, calls[c].req, now) :
          /\ out.nextOid <= MaxRows
          /\ collection' = out.coll
          /\ nextOid' = out.nextOid
          /\ calls' = [calls EXCEPT ![c].pc = "fetched", ![c].resp = out.resp]
    /\ UNCHANGED <<form, currentStudents, deleteId, shownErrors, loads>>
    /\ ClientFrame

\* a call resumes after await fetch(...)
Resumes(c, fn) == calls[c].fn = fn /\ calls[c].pc = "fetched"
\* a call resumes after await response.json()
Parsed(c, fn) == calls[c].fn = fn /\ calls[c].pc = "json"
\* ... and suspends at await response.json()
AwaitJson(c) == calls' = [calls EXCEPT ![c].pc = "json"]
\* ... or returns
Return(c) == calls' = [calls EXCEPT ![c] = NoCall]
\* ... or calls loadStudents(), which sends the list request
LoadStudents(c) ==
    /\ calls' = [calls EXCEPT ![c] = Fetch("loadStudents", ListAll)]
    /\ loads' = Issued(c)

\* loadStudents after await fetch: not ok throws into the catch block
LoadFetched(c) ==
    /\ Resumes(c, "loadStudents")
    /\ IF Ok(calls[c].resp)
       THEN AwaitJson(c) /\ UNCHANGED loads
       ELSE Return(c) /\ loads' = Ended(c, "failed", <<>>)
    /\ UNCHANGED <<form, currentStudents, deleteId, shownErrors>>
    /\ ClientFrame /\ ServerFrame

\* loadStudents after await response.json(): currentStudents = data.data
LoadJson(c) ==
    /\ Parsed(c, "loadStudents")
    /\ currentStudents' = calls[c].resp.data
    /\ Return(c)
    /\ loads' = Ended(c, "ok", calls[c].resp.data)
    /\ UNCHANGED <<form, deleteId, shownErrors>>
    /\ ClientFrame /\ ServerFrame

\* handleFormSubmit after await fetch: both branches await response.json()
SubmitFetched(c) ==
    /\ Resumes(c, "handleFormSubmit")
    /\ AwaitJson(c)
    /\ UNCHANGED <<form, currentStudents, deleteId, shownErrors, loads>>
    /\ ClientFrame /\ ServerFrame

\* a handleFormSubmit whose catch block resets the form too
SubmitJson_ResetsOnFailure(c) ==
    /\ Parsed(c, "handleFormSubmit")
    /\ form' = resetForm
    /\ shownErrors' = {}
    /\ IF Ok(calls[c].resp)
       THEN LoadStudents(c)
       ELSE Return(c) /\ UNCHANGED loads
    /\ UNCHANGED <<currentStudents, deleteId>>
    /\ ClientFrame /\ ServerFrame

\* handleFormSubmit after await response.json(): not ok throws into the
\* catch block; success resets the form and awaits loadStudents()
SubmitJson(c) ==
    /\ Parsed(c, "handleFormSubmit")
    /\ IF Ok(calls[c].resp)
       THEN /\ form' = resetForm
            /\ shownErrors' = {}
            /\ LoadStudents(c)
       ELSE /\ Return(c)
            /\ UNCHANGED <<form, shownErrors, loads>>
    /\ UNCHANGED <<currentStudents, deleteId>>
    /\ ClientFrame /\ ServerFrame

\* fetchStudentById after await fetch
EditFetched(c) ==
    /\ Resumes(c, "fetchStudentById")
    /\ IF Ok(calls[c].resp) THEN AwaitJson(c) ELSE Return(c)
    /\ UNCHANGED <<form, currentStudents, deleteId, shownErrors, loads>>
    /\ ClientFrame /\ ServerFrame

\* fetchStudentById after await response.json(): populateFormForEdit(data.data)
EditJson(c) ==
    /\ Parsed(c, "fetchStudentById")
    /\ form' = populateFormForEdit(calls[c].resp.data[1])
    /\ Return(c)
    /\ UNCHANGED <<currentStudents, deleteId, shownErrors, loads>>
    /\ ClientFrame /\ ServerFrame

\* handleDelete after await fetch: not ok throws into the catch block,
\* which closes the modal
DeleteFetched(c) ==
    /\ Resumes(c, "handleDelete")
    /\ IF Ok(calls[c].resp)
       THEN AwaitJson(c) /\ UNCHANGED deleteId
       ELSE Return(c) /\ deleteId' = <<>>
    /\ UNCHANGED <<form, currentStudents, shownErrors, loads>>
    /\ ClientFrame /\ ServerFrame

\* handleDelete after await response.json(): closeDeleteModal(), then
\* await loadStudents()
DeleteJson(c) ==
    /\ Parsed(c, "handleDelete")
    /\ deleteId' = <<>>
    /\ LoadStudents(c)
    /\ UNCHANGED <<form, currentStudents, shownErrors>>
    /\ ClientFrame /\ ServerFrame

\* the fetch of a call rejects, the request or its response lost: the catch
\* block of the function runs
FetchRejects(c) ==
    /\ calls[c].pc \in {"fetch", "fetched"}
    /\ Return(c)
    /\ loads' = (IF calls[c].fn = "loadStudents" THEN Ended(c, "failed", <<>>) ELSE loads)
    /\ deleteId' = (IF calls[c].fn = "handleDelete" THEN <<>> ELSE deleteId)
    /\ UNCHANGED <<form, currentStudents, shownErrors>>
    /\ ClientFrame /\ ServerFrame

ClientNext ==
    \/ \E f \in Typed : TypeForm(f)
    \/ \E c \in Calls : HandleFormSubmit(c)
    \/ CancelEdit
    \/ \E c \in Calls, id \in ClientIds : EditStudent(c, id)
    \/ \E id \in ClientIds : ShowDeleteModal(id)
    \/ CloseDeleteModal
    \/ \E c \in Calls : HandleDelete(c)
    \/ \E c \in Calls : ServerAnswers(c)
    \/ \E c \in Calls : LoadFetched(c)
    \/ \E c \in Calls : LoadJson(c)
    \/ \E c \in Calls : SubmitFetched(c)
    \/ \E c \in Calls : SubmitJson(c)
    \/ \E c \in Calls : EditFetched(c)
    \/ \E c \in Calls : EditJson(c)
    \/ \E c \in Calls : DeleteFetched(c)
    \/ \E c \in Calls : DeleteJson(c)
    \/ \E c \in Calls : FetchRejects(c)

ClientSpec == ClientInit /\ [][ClientNext]_vars

----------------------------------------------------------------------------
(* What the specification calls a valid payload *)

NameRule(d) == d.name.t = "string" /\ Len(Trim(d.name.s)) >= 2
EmailRule(d) == d.email.t = "string" /\ emailRegex(d.email.s)
PhoneRule(d) == Falsy(d.phone) \/ phoneRegex(JsToString(d.phone))
CourseRule(d) == d.course.t = "string" /\ Len(Trim(d.course.s)) >= 2
FeeStatusRule(d) == d.feeStatus.t = "string" /\ d.feeStatus.s \in validStatuses
JoinDateRule(d) == ~Falsy(d.joinDate) /\ NewDate(d.joinDate).valid
NotesRule(d) == Falsy(d.notes) \/ d.notes.t = "string"
AllRules(d) ==
    /\ NameRule(d) /\ EmailRule(d) /\ PhoneRule(d) /\ CourseRule(d)
    /\ FeeStatusRule(d) /\ JoinDateRule(d) /\ NotesRule(d)

\* every rule holds and the optional fields, when present, are text
ValidPayload(d) ==
    /\ AllRules(d)
    /\ d.phone.t \in {"undefined", "string"}
    /\ d.notes.t \in {"undefined", "string"}
ValidPayloadOf == [b \in Bodies |-> ValidPayload(b)] @@ <<>>

\* the email a payload stands for: trimmed and lower-cased
NormEmail(d) == ToLowerCase(Trim(d.email.s))
NormEmailOf == [b \in {x \in Bodies : x.email.t = "string"} |-> NormEmail(b)] @@ <<>>

Emails(coll) == {d.email : d \in coll}
Ids(coll) == {d._id : d \in coll}

----------------------------------------------------------------------------
(* Claims *)

\* C1: in every reachable state no two stored records have the same email,
\* whatever the interleaving of the Create and Update requests.
C1_EmailUnique ==
    \A d1 \in collection, d2 \in collection : d1.email = d2.email => d1 = d2

\* C1 witness: a valid Create passed the findOne check and had its insertOne
\* rejected by the unique index while another record holds its email.
C1_Witness ==
    /\ sent.req.method = "POST"
    /\ sent.resp.status = 500
    /\ sent.req.body \in Bodies
    /\ ValidPayloadOf[sent.req.body]
    /\ NormEmailOf[sent.req.body] \in Emails(collection)

\* the slot's next step is a write that the unique index rejects
C2_IndexRejects(s) ==
    \/ /\ pc[s] = "post_insertOne"
       /\ uniqueIndexRejects(collection, doc[s][1].email, GeneratedOid(nextOid + 1))
    \/ /\ pc[s] = "put_updateOne"
       /\ ObjectIdOf[req[s].id] \in Ids(collection)
       /\ uniqueIndexRejects(collection, doc[s][1].email, ObjectIdOf[req[s].id])

\* C2: a Create or Update whose write the unique index rejects, after the
\* service-level findOne found no duplicate, is answered 409 Conflict.
C2_IndexRejectionIsConflict ==
    [][\A s \in Slots :
          (C2_IndexRejects(s) /\ pc'[s] = "idle") => sent'.resp.status = 409]_vars

\* the slot's handler took a step
Stepped(s) == pc'[s] # pc[s]
\* the slot's handler sent its response in this step
Answered(s) == pc[s] # "idle" /\ pc'[s] = "idle"
\* a handler answered in its head, before any await
AnsweredInHead == pc' = pc /\ sent' # NoSent

\* the stored fields are the payload's, normalized: text trimmed, email
\* lower-cased, absent phone and notes the empty string, joinDate a date
NormalizedFrom(body, d) ==
    /\ d.name = Trim(body.name.s)
    /\ d.email = ToLowerCase(Trim(body.email.s))
    /\ d.phone = (IF body.phone.t = "string" THEN Trim(body.phone.s) ELSE <<>>)
    /\ d.course = Trim(body.course.s)
    /\ d.feeStatus = body.feeStatus.s
    /\ d.joinDate = NewDate(body.joinDate)
    /\ d.joinDate.valid
    /\ d.notes = (IF body.notes.t = "string" THEN Trim(body.notes.s) ELSE <<>>)

\* C3: a Create with a valid payload reaches the duplicate check, and when
\* a stored record holds its normalized email there, it is answered 409 and
\* the collection is left as it was ("JO@X.CO" against a stored "jo@x.co").
C3_CreateConflict ==
    [][/\ (AnsweredInHead /\ sent'.req.method = "POST")
            => ~ValidPayloadOf[sent'.req.body]
       /\ \A s \in Slots :
            (pc[s] = "post_findOne" /\ Stepped(s)
                 /\ NormEmailOf[req[s].body] \in Emails(collection))
            => /\ sent'.req = req[s]
               /\ sent'.resp.status = 409
               /\ collection' = collection]_vars

\* C3 witness: a Create sent with the upper-case address was answered 409
\* while the record created from the lower-case address is stored untouched.
C3_Witness ==
    /\ sent.req.method = "POST"
    /\ sent.resp.status = 409
    /\ sent.req.body.email.s # NormEmailOf[sent.req.body]
    /\ \E c \in hist.fresh :
          /\ c.data \in collection
          /\ c.body.email.s = c.data.email
          /\ c.data.email = NormEmailOf[sent.req.body]

\* C4 as claimed: an Update with a valid payload and a well-formed id that
\* matches no record is answered 404 whatever the payload.
C4_AlwaysNotFound ==
    [][\A s \in Slots :
          (pc[s] \in {"put_findOne", "put_updateOne"} /\ Answered(s)
               /\ ObjectIdOf[req[s].id] \notin Ids(collection))
          => sent'.resp.status = 404]_vars

\* C4 amended: an Update with a valid payload and a well-formed id that
\* matches no record is answered 409 by the uniqueness check when a stored
\* record holds the payload's normalized email, and otherwise goes on to the
\* write, which answers 404; the collection is unchanged either way.
C4_NotFoundUnlessConflict ==
    [][\A s \in Slots :
          (Stepped(s) /\ pc[s] \in {"put_findOne", "put_updateOne"}
               /\ ObjectIdOf[req[s].id] \notin Ids(collection))
          => /\ collection' = collection
             /\ pc[s] = "put_findOne" =>
                   IF NormEmailOf[req[s].body] \in Emails(collection)
                   THEN Answered(s) /\ sent'.resp.status = 409
                   ELSE pc'[s] = "put_updateOne"
             /\ pc[s] = "put_updateOne" =>
                   Answered(s) /\ sent'.resp.status = 404]_vars

\* C4 witness: an Update of an id that matches no record, carrying an
\* address no record holds, was answered 404 with another record stored.
C4_Witness ==
    /\ sent.req.method = "PUT"
    /\ sent.resp.status = 404
    /\ ValidPayloadOf[sent.req.body]
    /\ collection # {}
    /\ ObjectIdOf[sent.req.id] \notin Ids(collection)
    /\ NormEmailOf[sent.req.body] \notin Emails(collection)

\* C5: the uniqueness check of an Update answers 409 exactly when a record
\* other than the one being updated holds the payload's normalized email;
\* an Update carrying the record's own current email passes the check and
\* the write, and is answered 200.
C5_SelfExcluded ==
    [][\A s \in Slots :
          LET oid == ObjectIdOf[req[s].id]
              email == NormEmailOf[req[s].body]
          IN  /\ (pc[s] = "put_findOne" /\ Stepped(s))
                    => ((Answered(s) /\ sent'.resp.status = 409)
                          <=> \E d \in collection : d.email = email /\ d._id # oid)
              /\ (pc[s] \in {"put_findOne", "put_updateOne"} /\ Stepped(s)
                      /\ \E d \in collection : d._id = oid /\ d.email = email)
                    => ~Answered(s)
              /\ (pc[s] = "put_updateOne" /\ Answered(s))
                    => sent'.resp.status # 409
              /\ (pc[s] = "put_findUpdated" /\ Stepped(s))
                    => sent'.resp.status = 200]_vars

\* C5 witness: an Update that changes the name of a record and keeps its
\* email has passed the uniqueness check, with a second record stored.
C5_Witness ==
    \E s \in Slots :
        /\ pc[s] = "put_updateOne"
        /\ Cardinality(collection) = 2
        /\ \E d \in collection :
              /\ d._id = ObjectIdOf[req[s].id]
              /\ d.email = NormEmailOf[req[s].body]
              /\ d.name # doc[s][1].name

\* C6: a Get, Update or Delete whose id is malformed is answered 400
\* "Invalid student ID format" without a validation error list, whatever the
\* payload and the collection, and its handler never reaches an await.
C6_MalformedId ==
    /\ (sent.req.method \in {"GET", "PUT", "DELETE"} /\ ~isValidOf[sent.req.id])
          => /\ sent.resp.status = 400
             /\ sent.resp.message = MsgBadId
             /\ sent.resp.errors = <<>>
    /\ \A s \in Slots :
          req[s].method \in {"GET", "PUT", "DELETE"} => isValidOf[req[s].id]

\* C6 witness: an Update with a malformed id and a payload that breaks the
\* field rules was answered while a record is stored.
C6_Witness ==
    /\ sent.req.method = "PUT"
    /\ ~isValidOf[sent.req.id]
    /\ ~ValidPayloadOf[sent.req.body]
    /\ sent.resp.status = 400
    /\ collection # {}

\* the field rule an error string reports, in the order of the rules
FieldOf(err) ==
    CASE err = ErrName -> 1
      [] err \in {ErrEmailRequired, ErrEmailFormat} -> 2
      [] err = ErrPhone -> 3
      [] err = ErrCourse -> 4
      [] err = ErrFeeStatus -> 5
      [] err \in {ErrJoinRequired, ErrJoinFormat} -> 6
      [] err = ErrNotes -> 7
RuleOf(d, f) ==
    CASE f = 1 -> NameRule(d)
      [] f = 2 -> EmailRule(d)
      [] f = 3 -> PhoneRule(d)
      [] f = 4 -> CourseRule(d)
      [] f = 5 -> FeeStatusRule(d)
      [] f = 6 -> JoinDateRule(d)
      [] f = 7 -> NotesRule(d)
\* one error for every rule the payload breaks, none for the others, in the
\* order of the rules
ListsEveryViolation(d, errs) ==
    /\ \A f \in 1..7 :
          Cardinality({i \in 1..Len(errs) : FieldOf(errs[i]) = f})
              = (IF RuleOf(d, f) THEN 0 ELSE 1)
    /\ \A i \in 1..Len(errs), j \in 1..Len(errs) :
          i < j => FieldOf(errs[i]) < FieldOf(errs[j])
    /\ (errs = <<>>) <=> AllRules(d)

\* C7: validateStudent returns one error for every field rule the payload
\* breaks (not only the first), in the order name, email, phone, course,
\* feeStatus, joinDate, notes, and the empty list exactly when every rule
\* holds; Create, and Update with a well-formed id, answer 400 with that list.
C7_AllViolationsListed ==
    /\ vpc = "validateStudent" => ListsEveryViolation(vdata, vout.errors)
    /\ (vpc = "post" \/ (vpc = "put" /\ isValid(vout.id))) =>
          IF AllRules(vdata) THEN vout.resp.status # 400
          ELSE /\ vout.resp.status = 400
               /\ vout.resp.message = "Validation failed"
               /\ vout.pc = "idle"
               /\ ListsEveryViolation(vdata, vout.resp.errors)

\* C7 witness: an Update answered 400 with the five errors of a payload
\* that has no name, email, course, feeStatus and joinDate.
C7_Witness ==
    /\ vpc = "put"
    /\ vdata.name = Undefined /\ vdata.email = Undefined
    /\ vdata.course = Undefined /\ vdata.feeStatus = Undefined
    /\ vdata.joinDate = Undefined
    /\ vout.resp.status = 400
    /\ vout.resp.errors = <<ErrName, ErrEmailRequired, ErrCourse, ErrFeeStatus, ErrJoinRequired>>

\* C8: the write of a successful Update leaves the record's _id and
\* createdAt as they were, sets every editable field to the normalized
\* payload and updatedAt to the time the handler read, and changes no other
\* record; the Update is then answered 200; no step at all changes the
\* createdAt of a stored record.
C8_UpdateFrame ==
    [][/\ \A d \in collection, e \in collection' :
             d._id = e._id => d.createdAt = e.createdAt
       /\ \A s \in Slots :
            /\ (pc[s] = "put_updateOne" /\ pc'[s] = "put_findUpdated") =>
                  \E old \in collection, new \in collection' :
                      /\ old._id = ObjectIdOf[req[s].id]
                      /\ new._id = old._id
                      /\ new.createdAt = old.createdAt
                      /\ NormalizedFrom(req[s].body, new)
                      /\ new.updatedAt = doc[s][1].updatedAt
                      /\ collection' \ {new} = collection \ {old}
            /\ (pc[s] = "put_findUpdated" /\ Stepped(s)) =>
                  sent'.resp.status = 200]_vars

\* C8 witness: an Update has written a record at a later time than the
\* record was created, with a second record stored.
C8_Witness ==
    \E s \in Slots :
        /\ pc[s] = "put_findUpdated"
        /\ Cardinality(collection) = 2
        /\ \E d \in collection :
              /\ d._id = ObjectIdOf[req[s].id]
              /\ d.updatedAt > d.createdAt
              /\ d.updatedAt = doc[s][1].updatedAt

\* C9: a Get of the id a Create returned, with no Update or Delete of that
\* id in between, is answered 200 with the record of the Create response,
\* whose fields are the payload normalized and whose createdAt and updatedAt
\* are the times the Create handler read; the Create response carries the
\* freshly generated id.
C9_RoundTrip ==
    [][\A s \in Slots :
          /\ (pc[s] = "post_insertOne" /\ Answered(s) /\ sent'.resp.status = 201) =>
                /\ Len(sent'.resp.data) = 1
                /\ sent'.resp.data[1]._id = GeneratedOid(nextOid')
                /\ [body |-> req[s].body, data |-> sent'.resp.data[1]] \in hist'.fresh
          /\ (pc[s] = "get_findOne" /\ Answered(s)) =>
                \A c \in hist.fresh :
                    c.data._id = ObjectIdOf[req[s].id] =>
                        /\ sent'.resp.status = 200
                        /\ sent'.resp.data = <<c.data>>
                        /\ NormalizedFrom(c.body, c.data)
                        /\ c.data.createdAt <= c.data.updatedAt]_vars

\* C9 witness: a Get was answered with the record created from a payload
\* whose email was in upper case and whose course had a trailing blank.
C9_Witness ==
    /\ sent.req.method = "GET"
    /\ sent.resp.status = 200
    /\ \E c \in hist.fresh :
          /\ sent.resp.data = <<c.data>>
          /\ c.body.email.s # c.data.email
          /\ c.body.course.s # c.data.course

\* C10: once a Delete of an id was answered 200, no record with that id is
\* ever stored again and every later Get of the id is answered 404.
C10_DeletedStaysGone ==
    [][/\ Ids(collection') \cap hist'.deleted = {}
       /\ \A s \in Slots :
            (pc[s] = "get_findOne" /\ Answered(s)
                 /\ ObjectIdOf[req[s].id] \in hist.deleted)
            => sent'.resp.status = 404]_vars

\* C10 witness: a Get of a deleted id was answered 404 after a later Create
\* had stored another record.
C10_Witness ==
    /\ sent.req.method = "GET"
    /\ sent.resp.status = 404
    /\ ObjectIdOf[sent.req.id] \in hist.deleted
    /\ collection # {}

\* the text holds the search text, letters compared without case
ContainsIgnoreCase(text, search) ==
    \E off \in 0..(Len(text) - Len(search)) :
        \A k \in 1..Len(search) : LowerChar(search[k]) = LowerChar(text[off + k])
\* the records the claim expects a List to return
C11_Expected(coll, q) ==
    {d \in coll :
        /\ Falsy(q.status) \/ d.feeStatus = q.status.s
        /\ Falsy(q.search) \/ ContainsIgnoreCase(d.name, q.search.s)
                           \/ ContainsIgnoreCase(d.email, q.search.s)
                           \/ ContainsIgnoreCase(d.course, q.search.s)}

\* C11: a List is answered with exactly the stored records that have the
\* feeStatus of the status parameter, when one is given, and hold the search
\* text in name, email or course without regard to case, when one is given;
\* each record once, and count is the number of records returned.
C11_ListFilter ==
    sent.req.method = "LIST" =>
        /\ sent.resp.status = 200
        /\ {sent.resp.data[i] : i \in 1..Len(sent.resp.data)}
              = C11_Expected(collection, sent.req.query)
        /\ Len(sent.resp.data) = Cardinality(C11_Expected(collection, sent.req.query))
        /\ sent.resp.count = Len(sent.resp.data)

\* the step serves the request that was served just before it
Repeated(method) == sent.req.method = method /\ sent'.req = sent.req

\* C12 as claimed: a List, Get, Update or Delete applied twice in a row leaves
\* the collection as the first application left it and has the same outcome
\* the second time; a second identical Create is answered 409 and adds no
\* record.
C12_Idempotent ==
    [][/\ \A method \in {"LIST", "GET", "PUT", "DELETE"} :
             Repeated(method) => /\ collection' = collection
                                 /\ sent'.resp.status = sent.resp.status
       /\ (Repeated("POST") /\ sent.resp.status = 201)
             => (sent'.resp.status = 409 /\ collection' = collection)]_vars

\* the documents without their modification time
WithoutUpdatedAt(coll) == {[d EXCEPT !.updatedAt = 0] : d \in coll}
\* the documents of a list response
Listed(resp) == {resp.data[i] : i \in 1..Len(resp.data)}

\* C12 amended: applied a second time in a row, a List or a Get leaves the
\* collection unchanged and returns the same records; an Update is answered
\* with the same status and leaves the collection as the first did except
\* that updatedAt of the record is set again, to the time of the second
\* request; a Delete leaves the collection as the first did and is answered
\* 404 where the first was answered 200; a Create is answered 409 where the
\* first was answered 201 and adds no record.
C12_RepeatedRequest ==
    [][/\ Repeated("LIST") =>
             /\ collection' = collection
             /\ sent'.resp.status = sent.resp.status
             /\ Listed(sent'.resp) = Listed(sent.resp)
             /\ sent'.resp.count = sent.resp.count
       /\ Repeated("GET") => (collection' = collection /\ sent'.resp = sent.resp)
       /\ Repeated("PUT") =>
             /\ sent'.resp.status = sent.resp.status
             /\ WithoutUpdatedAt(collection') = WithoutUpdatedAt(collection)
             /\ IF sent.resp.status = 200
                THEN \A d \in collection' :
                        IF d._id = ObjectIdOf[sent.req.id] THEN d.updatedAt = now'
                        ELSE d \in collection
                ELSE collection' = collection /\ sent'.resp = sent.resp
       /\ Repeated("DELETE") =>
             /\ collection' = collection
             /\ sent'.resp.status
                   = (IF sent.resp.status = 200 THEN 404 ELSE sent.resp.status)
       /\ Repeated("POST") =>
             /\ collection' = collection
             /\ sent'.resp.status
                   = (IF sent.resp.status = 201 THEN 409 ELSE sent.resp.status)]_vars

\* C12 witness: an Update answered 200 was sent again and answered 200 with
\* a later updatedAt, a second record being stored.
C12_Witness ==
    /\ sent.req.method = "PUT"
    /\ prev.status = 200
    /\ sent.resp.status = 200
    /\ sent.resp.data[1].updatedAt > prev.data[1].updatedAt
    /\ Cardinality(collection) = 2

\* C16: a step that answers a request 400, 404 or 409 leaves the collection
\* as it was, and so does every earlier step of that request: the only steps
\* that change the collection are the insert of a Create answered 201, the
\* delete of a Delete answered 200 and the write of an Update, which is then
\* answered 200.
C16_FailuresChangeNothing ==
    [][/\ (sent' # NoSent /\ sent'.resp.status \in {400, 404, 409})
             => collection' = collection
       /\ collection' # collection =>
             \E s \in Slots :
                 \/ /\ pc[s] = "post_insertOne" /\ Answered(s)
                    /\ sent'.resp.status = 201
                 \/ /\ pc[s] = "delete_deleteOne" /\ Answered(s)
                    /\ sent'.resp.status = 200
                 \/ pc[s] = "put_updateOne" /\ pc'[s] = "put_findUpdated"
       /\ \A s \in Slots :
             (pc[s] = "put_findUpdated" /\ Stepped(s))
                 => (Answered(s) /\ sent'.resp.status = 200)]_vars

\* C16 witness: a Delete of an id that matches no record went through the
\* store call and was answered 404 with another record stored.
C16_Witness ==
    /\ sent.req.method = "DELETE"
    /\ sent.resp.status = 404
    /\ collection # {}

\* C14: validateForm accepts a form exactly when validateStudent returns no
\* error for the payload handleFormSubmit sends for that form.
C14_ClientMirrorsServer ==
    vpc = "form" => (vout.pc = "accepted" <=> vout.errors = <<>>)

\* the form's mode
EditMode(f) == f.studentId # <<>>
\* a step in which handleFormSubmit sends the request of call c
Submits(c) ==
    /\ calls[c].fn = "none"
    /\ calls'[c].fn = "handleFormSubmit"
\* a step in which call c of handleFormSubmit ends its await on an answer
\* the server rejected, or on a fetch that failed
Rejected(c) ==
    /\ calls[c].fn = "handleFormSubmit"
    /\ calls'[c] = NoCall

\* C13: a submit in create mode sends a POST and in edit mode a PUT to the
\* form's studentId, both with the entered values; the form enters edit mode
\* only by populateFormForEdit of a fetched record; it returns to create mode
\* only on cancel or after a submit the server answered 2xx; a
\* submit that fails validateForm sends nothing and leaves the form as it
\* is, and so does a submit the server rejects.
C13_TwoModes ==
    [][/\ \A c \in Calls :
             Submits(c) =>
                 /\ calls'[c].req.body = studentData(form)
                 /\ IF EditMode(form)
                    THEN /\ calls'[c].req.method = "PUT"
                         /\ calls'[c].req.id = form.studentId
                    ELSE calls'[c].req.method = "POST"
                 /\ form' = form
       /\ (~EditMode(form) /\ EditMode(form')) =>
             \E c \in Calls :
                 /\ calls[c].fn = "fetchStudentById"
                 /\ calls[c].resp.status = 200
                 /\ form'.studentId = toHexString(calls[c].resp.data[1]._id)
       /\ (EditMode(form) /\ ~EditMode(form')) =>
             \/ calls' = calls /\ shownErrors' = {}
             \/ \E c \in Calls :
                   /\ calls[c].fn = "handleFormSubmit"
                   /\ calls[c].pc = "json"
                   /\ Ok(calls[c].resp)
                   /\ calls'[c].fn = "loadStudents"
       /\ (shownErrors' # {} /\ shownErrors' # shownErrors) =>
             (form' = form /\ calls' = calls)
       /\ \A c \in Calls : Rejected(c) => form' = form]_vars

\* C13 witness: in edit mode, a PUT to the form's studentId was answered 404
\* and handleFormSubmit is about to read the answer.
C13_Witness ==
    /\ EditMode(form)
    /\ \E c \in Calls :
          /\ calls[c].fn = "handleFormSubmit"
          /\ calls[c].pc = "json"
          /\ calls[c].req.method = "PUT"
          /\ calls[c].req.id = form.studentId
          /\ calls[c].resp.status = 404

\* no call of loadStudents is suspended
LoadsCompleted == \A c \in Calls : calls[c].fn # "loadStudents"

\* C15: once every loadStudents call has completed, the most recently issued
\* one having received its list, currentStudents is that list.
C15_LastLoadWins ==
    (LoadsCompleted /\ loads.got = "ok") => currentStudents = loads.data

====
